---- MODULE Spec2Model ----
(***************************************************************************)
(* A model of the IoT gateway log-line parser (src/src/parser/parser.rs).  *)
(*                                                                         *)
(* Text is a sequence of one-character strings.  A parser combinator is an *)
(* operator over (text, position) that returns a record with ok (did it    *)
(* match) and to (the position after what it consumed); positions are      *)
(* 1-based, and the remaining input of nom is the suffix from a position.  *)
(*                                                                         *)
(* TLC's integers are 32-bit and signed, so the two wide integer types of  *)
(* the program are kept as two-limb numerals:                              *)
(*   u32  [hi, lo]   value = hi * 65536 + lo,  hi, lo in 0..65535          *)
(*   i64  [sec, ms]  value = sec * 1000 + ms,  ms in 0..999                *)
(***************************************************************************)
EXTENDS Integers, Sequences, FiniteSets, TLC

--------------------------------------------------------------------------
(* Characters                                                              *)

\* The printable ASCII characters in code order, from 32 (space) to 126
\* (code 96 is held by a placeholder: the character cannot be written here).
AsciiPrintable ==
    << " ", "!", "\"", "#", "$", "%", "&", "'", "(", ")", "*", "+", ",", "-", ".", "/",
       "0", "1", "2", "3", "4", "5", "6", "7", "8", "9", ":", ";", "<", "=", ">", "?",
       "@", "A", "B", "C", "D", "E", "F", "G", "H", "I", "J", "K", "L", "M", "N", "O",
       "P", "Q", "R", "S", "T", "U", "V", "W", "X", "Y", "Z", "[", "\\", "]", "^", "_",
       "<grave>", "a", "b", "c", "d", "e", "f", "g", "h", "i", "j", "k", "l", "m", "n", "o",
       "p", "q", "r", "s", "t", "u", "v", "w", "x", "y", "z", "{", "|", "}", "~" >>

\* The byte each character is encoded as (ASCII).
AsciiCode ==
    [c \in {AsciiPrintable[i] : i \in 1..Len(AsciiPrintable)} \cup {"\t", "\n", "\r"} |->
        CASE c = "\t" -> 9
          [] c = "\n" -> 10
          [] c = "\r" -> 13
          [] OTHER -> 31 + (CHOOSE i \in 1..Len(AsciiPrintable) : AsciiPrintable[i] = c)]

Ord(c) == AsciiCode[c]

\* nom::character::complete::digit1 accepts the ASCII digits.
DigitChars == {"0", "1", "2", "3", "4", "5", "6", "7", "8", "9"}

\* nom::character::complete::space1 accepts spaces and tabs.
SpaceChars == {" ", "\t"}

\* The value of one decimal digit.
DigitVal(c) == Ord(c) - Ord("0")

Suffix(s, p) == SubSeq(s, p, Len(s))

--------------------------------------------------------------------------
(* Primitive combinators                                                   *)

RECURSIVE RunEnd(_, _, _)
\* The position after the longest run of characters of S that starts at p.
RunEnd(s, p, S) ==
    IF p > Len(s) \/ s[p] \notin S THEN p ELSE RunEnd(s, p + 1, S)

\* digit1: one or more digits.
digit1(s, p) ==
    LET q == RunEnd(s, p, DigitChars) IN [ok |-> q > p, to |-> q]

\* space1: one or more spaces or tabs.
space1(s, p) ==
    LET q == RunEnd(s, p, SpaceChars) IN [ok |-> q > p, to |-> q]

\* tag(t): the literal t.
tag(s, p, t) ==
    LET q == p + Len(t)
    IN  [ok |-> q <= Len(s) + 1 /\ SubSeq(s, p, q - 1) = t, to |-> q]

RECURSIVE FindChar(_, _, _)
\* The position of the first c at or after p, or Len(s) + 1 when there is none.
FindChar(s, p, c) ==
    IF p > Len(s) \/ s[p] = c THEN p ELSE FindChar(s, p + 1, c)

\* take_until1(":"): the non-empty text before the first colon, which must exist.
take_until1(s, p, c) ==
    LET q == FindChar(s, p, c) IN [ok |-> q <= Len(s) /\ q > p, to |-> q]

RECURSIVE SepListLoop(_, _, _, _)
\* The loop of separated_list1(tag(sep), digit1) after an element ended at p:
\* a separator followed by an element extends the list, anything else ends it
\* at p (a separator without an element after it is not consumed).
SepListLoop(s, p, sep, acc) ==
    LET t == tag(s, p, sep)
        e == digit1(s, t.to)
    IN  IF t.ok /\ e.ok
        THEN SepListLoop(s, e.to, sep, Append(acc, SubSeq(s, t.to, e.to - 1)))
        ELSE [ok |-> TRUE, to |-> p, items |-> acc]

\* separated_list1(tag(sep), digit1): one or more digit groups separated by sep.
separated_list1(s, p, sep) ==
    LET e == digit1(s, p)
    IN  IF e.ok
        THEN SepListLoop(s, e.to, sep, <<SubSeq(s, p, e.to - 1)>>)
        ELSE [ok |-> FALSE, to |-> p, items |-> <<>>]

RECURSIVE many0_newline(_, _)
\* many0(newline): the position after zero or more "\n"; it never fails.
many0_newline(s, p) ==
    IF p <= Len(s) /\ s[p] = "\n" THEN many0_newline(s, p + 1) ELSE p

\* not_line_ending: the text before the first "\n" or "\r\n", or all of it;
\* a "\r" that no "\n" follows is an error.
not_line_ending(s, p) ==
    LET q == RunEnd(s, p, {c \in {s[i] : i \in p..Len(s)} : c \notin {"\r", "\n"}})
    IN  IF q <= Len(s) /\ s[q] = "\r" /\ ~(q + 1 <= Len(s) /\ s[q + 1] = "\n")
        THEN [ok |-> FALSE, to |-> p]
        ELSE [ok |-> TRUE, to |-> q]

--------------------------------------------------------------------------
(* Integers                                                                *)

\* The base of the two limbs of a u32 (IpPortPair.port, NetworkInfo ports).
TwoPow16 == 65536

U32(n) == [hi |-> n \div TwoPow16, lo |-> n % TwoPow16]

U32Zero == U32(0)

\* One step of str::parse::<u32>: acc * 10 + d, checked against 32 bits.
U32MulAdd(acc, d) ==
    LET lo == acc.lo * 10 + d
        hi == acc.hi * 10 + (lo \div TwoPow16)
    IN  [ok |-> hi < TwoPow16, v |-> [hi |-> hi % TwoPow16, lo |-> lo % TwoPow16]]

RECURSIVE ParseU32From(_, _, _)
ParseU32From(ds, i, acc) ==
    IF i > Len(ds)
    THEN [ok |-> TRUE, v |-> acc]
    ELSE LET r == U32MulAdd(acc, DigitVal(ds[i]))
         IN  IF r.ok THEN ParseU32From(ds, i + 1, r.v) ELSE [ok |-> FALSE, v |-> U32Zero]

\* port.parse::<u32>() on a non-empty digit run: Err exactly on overflow.
parse_u32(ds) == ParseU32From(ds, 1, U32Zero)

RECURSIVE DecFrom(_, _, _)
DecFrom(ds, i, acc) ==
    IF i > Len(ds) THEN acc ELSE DecFrom(ds, i + 1, acc * 10 + DigitVal(ds[i]))

\* The value of a short digit run (a date or time field).
Dec(ds) == DecFrom(ds, 1, 0)

\* An i64 count of milliseconds as [sec, ms].
I64Millis(sec, ms) == [sec |-> sec, ms |-> ms]

\* t + delta for an i64 of milliseconds and a delta that fits 32 bits.
AddMillis(t, delta) ==
    LET m == t.ms + delta
    IN  [sec |-> t.sec + (m \div 1000), ms |-> m % 1000]

--------------------------------------------------------------------------
(* Timestamp                                                               *)

RECURSIVE Join(_, _)
\* groups.join(sep)
Join(groups, sep) ==
    IF Len(groups) = 0 THEN <<>>
    ELSE IF Len(groups) = 1 THEN groups[1]
    ELSE groups[1] \o sep \o Join(Tail(groups), sep)

\* format!("{} {}.{}", date.join("-"), time.join(":"), micro_seconds)
FormatDatetime(date, time, micro) ==
    Join(date, <<"-">>) \o <<" ">> \o Join(time, <<":">>) \o <<".">> \o micro

IsLeap(y) == (y % 4 = 0 /\ y % 100 # 0) \/ y % 400 = 0

DaysInMonth(y, m) ==
    IF m = 2 THEN (IF IsLeap(y) THEN 29 ELSE 28)
    ELSE IF m \in {4, 6, 9, 11} THEN 30 ELSE 31

\* Days from 1970-01-01 to the proleptic Gregorian date y-m-d.
DaysFromCivil(y, m, d) ==
    LET yy  == IF m <= 2 THEN y - 1 ELSE y
        era == yy \div 400
        yoe == yy - era * 400
        mp  == IF m > 2 THEN m - 3 ELSE m + 9
        doy == (153 * mp + 2) \div 5 + d - 1
        doe == yoe * 365 + yoe \div 4 - yoe \div 100 + doy
    IN  era * 146097 + doe - 719468

\* The first three digits of a fraction of a second, as milliseconds.
FracMillis(f) ==
    LET g == SubSeq(f \o <<"0", "0">>, 1, 3) IN Dec(g)

\* dateparser::parse_with_timezone(text, UTC+0) on the text parse_server_time
\* formats: it is a date-time when it reads "YYYY-MM-DD hh:mm:ss.f" (f of 1 to 9
\* digits) and names a date and a time of day that exist; the value is the i64
\* of milliseconds since the epoch that timestamp_millis() then gives.
parse_with_timezone(text) ==
    LET d   == separated_list1(text, 1, <<"-">>)
        w   == space1(text, d.to)
        t   == separated_list1(text, w.to, <<":">>)
        dot == tag(text, t.to, <<".">>)
        f   == digit1(text, dot.to)
        shape == /\ d.ok /\ w.ok /\ t.ok /\ dot.ok /\ f.ok
                 /\ f.to = Len(text) + 1
                 /\ [i \in 1..Len(d.items) |-> Len(d.items[i])] = <<4, 2, 2>>
                 /\ [i \in 1..Len(t.items) |-> Len(t.items[i])] = <<2, 2, 2>>
                 /\ f.to - dot.to \in 1..9
        y  == Dec(d.items[1])
        mo == Dec(d.items[2])
        dd == Dec(d.items[3])
        h  == Dec(t.items[1])
        mi == Dec(t.items[2])
        se == Dec(t.items[3])
        valid == /\ mo \in 1..12 /\ dd \in 1..DaysInMonth(y, mo)
                 /\ h \in 0..23 /\ mi \in 0..59 /\ se \in 0..59
    IN  IF shape /\ valid
        THEN [ok |-> TRUE,
              v  |-> I64Millis(DaysFromCivil(y, mo, dd) * 86400 + h * 3600 + mi * 60 + se,
                               FracMillis(SubSeq(text, dot.to, f.to - 1)))]
        ELSE [ok |-> FALSE, v |-> I64Millis(0, 0)]

\* str_as_unix_time with the correction added instead of subtracted.
str_as_unix_time_plus8h(server_time) ==
    LET r == parse_with_timezone(server_time)
    IN  IF r.ok THEN AddMillis(r.v, 8 * 3600 * 1000) ELSE I64Millis(0, 0)

\* str_as_unix_time with the correction applied to the fallback as well.
str_as_unix_time_shifted_fallback(server_time) ==
    LET r == parse_with_timezone(server_time)
    IN  AddMillis(IF r.ok THEN r.v ELSE I64Millis(0, 0), -8 * 3600 * 1000)

\* str_as_unix_time: the conversion at offset zero, then -8 h; 0 when it fails.
str_as_unix_time(server_time) ==
    LET r == parse_with_timezone(server_time)
    IN  IF r.ok THEN AddMillis(r.v, -8 * 3600 * 1000) ELSE I64Millis(0, 0)

\* parse_server_time: digit groups separated by "-", spaces, digit groups
\* separated by ":", ".", digits; the value is str_as_unix_time of the groups
\* formatted again.
parse_server_time(s, p) ==
    LET d   == separated_list1(s, p, <<"-">>)
        w   == space1(s, d.to)
        t   == separated_list1(s, w.to, <<":">>)
        dot == tag(s, t.to, <<".">>)
        f   == digit1(s, dot.to)
        micro == SubSeq(s, dot.to, f.to - 1)
    IN  IF d.ok /\ w.ok /\ t.ok /\ dot.ok /\ f.ok
        THEN [ok |-> TRUE, to |-> f.to, date |-> d.items, time |-> t.items,
              micro |-> micro,
              unix_time |-> str_as_unix_time(FormatDatetime(d.items, t.items, micro))]
        ELSE [ok |-> FALSE, to |-> p, date |-> <<>>, time |-> <<>>, micro |-> <<>>,
              unix_time |-> I64Millis(0, 0)]

--------------------------------------------------------------------------
(* Network tuple                                                           *)

\* parse_ip_or_domain: the non-empty text before the next ":".
parse_ip_or_domain(s, p) == take_until1(s, p, ":")

\* parse_port: a digit run, kept as text.
parse_port(s, p) == digit1(s, p)

NoPair == [ip |-> <<>>, port |-> U32Zero]

\* parse_ip_port_pair: host ":" port, then port.parse::<u32>().unwrap(), which
\* panics when the digit run does not fit 32 bits.
\* st is "ok", "error" (no match) or "panic".
parse_ip_port_pair(s, p) ==
    LET h == parse_ip_or_domain(s, p)
        c == tag(s, h.to, <<":">>)
        d == parse_port(s, c.to)
        n == parse_u32(SubSeq(s, c.to, d.to - 1))
    IN  IF ~(h.ok /\ c.ok /\ d.ok) THEN [st |-> "error", to |-> p, pair |-> NoPair]
        ELSE IF ~n.ok THEN [st |-> "panic", to |-> p, pair |-> NoPair]
        ELSE [st |-> "ok", to |-> d.to,
              pair |-> [ip |-> SubSeq(s, p, h.to - 1), port |-> n.v]]

\* Protocol deciding on the low 16 bits of the port.
ProtocolLow16(client_port) ==
    IF client_port.lo = 0 THEN "mqtt" ELSE "iec104"

\* The match on client.port in parse_iot_log.
Protocol(client_port) ==
    IF client_port = U32Zero THEN "mqtt" ELSE "iec104"

NoNetworkInfo ==
    [client_ip |-> <<>>, client_port |-> U32Zero, server_ip |-> <<>>,
     server_port |-> U32Zero, protocol |-> "None"]

\* parse_iot_log: "[" pair "#" pair "]" and the NetworkInfo built from it.
parse_iot_log(s, p) ==
    LET open   == tag(s, p, <<"[">>)
        client == parse_ip_port_pair(s, open.to)
        hash   == tag(s, client.to, <<"#">>)
        server == parse_ip_port_pair(s, hash.to)
        close  == tag(s, server.to, <<"]">>)
    IN  IF ~open.ok THEN [st |-> "error", to |-> p, info |-> NoNetworkInfo]
        ELSE IF client.st # "ok" THEN [st |-> client.st, to |-> p, info |-> NoNetworkInfo]
        ELSE IF ~hash.ok THEN [st |-> "error", to |-> p, info |-> NoNetworkInfo]
        ELSE IF server.st # "ok" THEN [st |-> server.st, to |-> p, info |-> NoNetworkInfo]
        ELSE IF ~close.ok THEN [st |-> "error", to |-> p, info |-> NoNetworkInfo]
        ELSE [st |-> "ok", to |-> close.to,
              info |-> [client_ip   |-> client.pair.ip,
                        client_port |-> client.pair.port,
                        server_ip   |-> server.pair.ip,
                        server_port |-> server.pair.port,
                        protocol    |-> Protocol(client.pair.port)]]

\* parse_network_info passes parse_iot_log on.
parse_network_info(s, p) == parse_iot_log(s, p)

--------------------------------------------------------------------------
(* Payload                                                                 *)

\* parse_payload accepting the "D:" prefix alone.
parse_payload_only_D(s, p) ==
    LET pre  == tag(s, p, <<"D", ":">>)
        body == not_line_ending(s, pre.to)
    IN  IF pre.ok /\ body.ok
        THEN [ok |-> TRUE, to |-> body.to, json |-> SubSeq(s, pre.to, body.to - 1)]
        ELSE [ok |-> FALSE, to |-> p, json |-> <<>>]

\* parse_payload: "D:" or "R:", then the text up to the line ending.
parse_payload(s, p) ==
    LET d    == tag(s, p, <<"D", ":">>)
        r    == tag(s, p, <<"R", ":">>)
        pre  == IF d.ok THEN d ELSE r
        body == not_line_ending(s, pre.to)
    IN  IF pre.ok /\ body.ok
        THEN [ok |-> TRUE, to |-> body.to, json |-> SubSeq(s, pre.to, body.to - 1)]
        ELSE [ok |-> FALSE, to |-> p, json |-> <<>>]

\* HexVal without the upper-case letters.
HexValLowerOnly(c) ==
    LET o == Ord(c)
    IN  IF o >= Ord("a") /\ o <= Ord("f") THEN o - Ord("a") + 10
        ELSE IF o >= Ord("0") /\ o <= Ord("9") THEN o - Ord("0")
        ELSE -1

\* hex: the value of a hex digit of either case, or -1.
HexVal(c) ==
    LET o == Ord(c)
    IN  IF o >= Ord("A") /\ o <= Ord("F") THEN o - Ord("A") + 10
        ELSE IF o >= Ord("a") /\ o <= Ord("f") THEN o - Ord("a") + 10
        ELSE IF o >= Ord("0") /\ o <= Ord("9") THEN o - Ord("0")
        ELSE -1

\* hex::decode: Err on an odd length or a character that is no hex digit,
\* else one byte for each pair of digits, the first digit the high half.
hex_decode(text) ==
    IF Len(text) % 2 # 0 \/ \E i \in 1..Len(text) : HexVal(text[i]) < 0
    THEN [ok |-> FALSE, bytes |-> <<>>]
    ELSE [ok |-> TRUE,
          bytes |-> [i \in 1..(Len(text) \div 2) |->
                        HexVal(text[2 * i - 1]) * 16 + HexVal(text[2 * i])]]

\* String::into_bytes
into_bytes(text) == [i \in 1..Len(text) |-> Ord(text[i])]

--------------------------------------------------------------------------
(* Envelope                                                                *)

\* MessageType deciding on the low 16 bits of the port.
MessageTypeLow16(client_port) ==
    IF client_port.lo = 0 THEN "mqtt" ELSE "iec104"

\* The match on network_info.client_port in parse_log.
MessageType(client_port) ==
    IF client_port = U32Zero THEN "mqtt" ELSE "iec104"

\* The ChannelInfo parse_log fills from the NetworkInfo.
Channel(network_info) ==
    [client_ip   |-> network_info.client_ip,
     client_port |-> network_info.client_port,
     server_ip   |-> network_info.server_ip,
     server_port |-> network_info.server_port,
     protocol    |-> network_info.protocol]

NoMessage ==
    [channel |-> Channel(NoNetworkInfo), message_type |-> "None", message |-> <<>>,
     server_time |-> "None"]

\* The IotMessage of both branches of parse_log.
Envelope(unix_time, network_info, bytes) ==
    [channel      |-> Channel(network_info),
     message_type |-> MessageType(network_info.client_port),
     message      |-> bytes,
     server_time  |-> unix_time]

\* Assemble with a payload that is no hex text propagated as an error.
AssembleBadHexFails(unix_time, network_info, json_str) ==
    IF network_info.client_port # U32Zero
    THEN LET h == hex_decode(json_str)
         IN  IF h.ok
             THEN [kind |-> "envelope", msg |-> Envelope(unix_time, network_info, h.bytes)]
             ELSE [kind |-> "failure", msg |-> NoMessage]
    ELSE [kind |-> "envelope",
          msg  |-> Envelope(unix_time, network_info, into_bytes(json_str))]

\* Assemble decoding the payload as hex text whatever the client port.
AssembleAlwaysHex(unix_time, network_info, json_str) ==
    LET h == hex_decode(json_str)
    IN  IF h.ok
        THEN [kind |-> "envelope", msg |-> Envelope(unix_time, network_info, h.bytes)]
        ELSE [kind |-> "none", msg |-> NoMessage]

\* What parse_log returns once its grammar matched: Some(envelope), or None
\* when the client port is not 0 and the payload is no hex text.
Assemble(unix_time, network_info, json_str) ==
    IF network_info.client_port # U32Zero
    THEN LET h == hex_decode(json_str)
         IN  IF h.ok
             THEN [kind |-> "envelope", msg |-> Envelope(unix_time, network_info, h.bytes)]
             ELSE [kind |-> "none", msg |-> NoMessage]
    ELSE [kind |-> "envelope",
          msg  |-> Envelope(unix_time, network_info, into_bytes(json_str))]

--------------------------------------------------------------------------
(* Input lines                                                             *)

\* Bounds of the input lines.
MaxSpaces == 2
MaxNewlines == 2
MaxBodyLen == 2

\* Timestamp tokens.
\* the token of test_server_time
TsTest == <<"2", "0", "2", "4", "-", "0", "5", "-", "0", "5", " ", "0", "0", ":", "0", "0", ":", "2", "1", ".", "5", "2", "5">>

\* a leap day, with a space and a tab between date and time
TsLeapDay == <<"2", "0", "2", "4", "-", "0", "2", "-", "2", "9", " ", "\t", "2", "3", ":", "5", "9", ":", "5", "9", ".", "9", "9", "9">>

\* the valid token whose value is 0
TsEpochPlus8h == <<"1", "9", "7", "0", "-", "0", "1", "-", "0", "1", " ", "0", "8", ":", "0", "0", ":", "0", "0", ".", "0", "0", "0">>

\* month 13
TsMonth13 == <<"2", "0", "2", "4", "-", "1", "3", "-", "0", "5", " ", "0", "0", ":", "0", "0", ":", "2", "1", ".", "5", "2", "5">>

\* hour 99
TsHour99 == <<"2", "0", "2", "4", "-", "0", "5", "-", "0", "5", " ", "9", "9", ":", "0", "0", ":", "2", "1", ".", "5", "2", "5">>

\* 29 February of a year that is no leap year
TsFeb29NoLeap == <<"2", "0", "2", "3", "-", "0", "2", "-", "2", "9", " ", "0", "0", ":", "0", "0", ":", "2", "1", ".", "5", "2", "5">>

\* one date group
TsOneDateGroup == <<"2", "0", "2", "4", " ", "0", "0", ":", "0", "0", ":", "2", "1", ".", "5", "2", "5">>

\* four date groups
TsFourDateGroups == <<"2", "0", "2", "4", "-", "0", "5", "-", "0", "5", "-", "0", "1", " ", "0", "0", ":", "0", "0", ":", "2", "1", ".", "5", "2", "5">>

\* two time groups
TsTwoTimeGroups == <<"2", "0", "2", "4", "-", "0", "5", "-", "0", "5", " ", "0", "0", ":", "0", "0", ".", "5", "2", "5">>

\* four time groups
TsFourTimeGroups == <<"2", "0", "2", "4", "-", "0", "5", "-", "0", "5", " ", "0", "0", ":", "0", "0", ":", "2", "1", ":", "0", "7", ".", "5", "2", "5">>

\* no dot and fraction
TsNoFraction == <<"2", "0", "2", "4", "-", "0", "5", "-", "0", "5", " ", "0", "0", ":", "0", "0", ":", "2", "1">>

\* no digit at the start
TsNoDigits == <<"T", "2", "0", "2", "4", "-", "0", "5", "-", "0", "5", " ", "0", "0", ":", "0", "0", ":", "2", "1", ".", "5", "2", "5">>

TsCore == {TsTest, TsMonth13}

TsAll ==
    {TsTest, TsLeapDay, TsEpochPlus8h, TsMonth13, TsHour99, TsFeb29NoLeap,
     TsOneDateGroup, TsFourDateGroups, TsTwoTimeGroups, TsFourTimeGroups,
     TsNoFraction, TsNoDigits}

\* Whitespace between the stages: up to MaxSpaces spaces (none is a mismatch),
\* or a tab.
Repeat(c, n) == [i \in 1..n |-> c]

WsCore == {<<" ">>}

WsAll == {Repeat(" ", n) : n \in 0..MaxSpaces} \cup {<<"\t">>}

\* Network tuples.
\* client port 0
NetMqtt == <<"[", "z", "j", "k", "g", ":", "0", "#", "1", "0", ".", "0", ".", "1", ".", "8", "8", ":", "1", "8", "8", "3", "]">>

\* the tuple of test_iec104_network
NetIec104 == <<"[", "2", "2", "3", ".", "1", "0", "4", ".", "4", "3", ".", "1", "1", ":", "1", "1", "6", "8", "6", "#", "1", "0", ".", "0", ".", "1", ".", "8", "8", ":", "5", "0", "0", "3", "]">>

\* client port 00 and server port 0
NetZeroZero == <<"[", "h", ":", "0", "0", "#", "s", ":", "0", "]">>

\* server port 0 alone
NetServerZero == <<"[", "h", ":", "7", "#", "s", ":", "0", "]">>

\* a client port whose low 16 bits are 0
NetPort65536 == <<"[", "h", ":", "6", "5", "5", "3", "6", "#", "s", ":", "1", "8", "8", "3", "]">>

\* the largest u32
NetMaxPort == <<"[", "h", ":", "4", "2", "9", "4", "9", "6", "7", "2", "9", "5", "#", "s", ":", "1", "]">>

\* client port 2^32
NetClientOverflow == <<"[", "h", ":", "4", "2", "9", "4", "9", "6", "7", "2", "9", "6", "#", "s", ":", "1", "]">>

\* server port above 2^32
NetServerOverflow == <<"[", "h", ":", "0", "#", "s", ":", "9", "9", "9", "9", "9", "9", "9", "9", "9", "9", "9", "]">>

\* no # between the pairs
NetNoHash == <<"[", "h", ":", "0", "s", ":", "1", "]">>

\* no closing bracket
NetNoClose == <<"[", "h", ":", "0", "#", "s", ":", "1">>

\* an empty client host
NetEmptyHost == <<"[", ":", "0", "#", "s", ":", "1", "]">>

\* no opening bracket
NetNoOpen == <<"h", ":", "0", "#", "s", ":", "1", "]">>

NetCore == {NetMqtt, NetIec104, NetPort65536}

NetAll ==
    {NetMqtt, NetIec104, NetZeroZero, NetServerZero, NetPort65536, NetMaxPort,
     NetClientOverflow, NetServerOverflow, NetNoHash, NetNoClose, NetEmptyHost,
     NetNoOpen}

\* Payloads: a prefix and a body.
\* the hex text of the spec's example
BodyHexTest == <<"6", "8", "2", "2", "e", "e">>

\* a JSON text
BodyJson == <<"{", "\"", "a", "\"", ":", "1", "}">>

\* A digit, a hex letter in both cases, and a letter that is no hex digit.
BodyChars == {"6", "e", "E", "g"}

RECURSIVE Texts(_)
\* The texts over BodyChars of length up to n.
Texts(n) ==
    IF n = 0 THEN {<<>>}
    ELSE LET T == Texts(n - 1) IN T \cup {Append(t, c) : t \in T, c \in BodyChars}

BodyAll == Texts(MaxBodyLen) \cup {BodyHexTest, BodyJson}

PayCore == {<<"D", ":">> \o BodyHexTest, <<"R", ":">> \o BodyJson}

PayAll ==
    {pre \o b : pre \in {<<"D", ":">>, <<"R", ":">>}, b \in BodyAll}
        \cup {<<"X", ":", "6", "e">>, <<"D", "6", "e">>, <<"d", ":", "6", "e">>}

\* What follows the payload: newlines, then nothing, the start of another
\* line, a CR LF or a lone CR.
TailCore == {<<>>, <<"\n">>}

TailAll ==
    {Repeat("\n", n) \o t :
        n \in 0..MaxNewlines, t \in {<<>>, <<"2">>, <<"\r", "\n">>, <<"\r">>}}

Line(t, w1, n, w2, pl, tl) == t \o w1 \o n \o w2 \o pl \o tl

\* The lines parse_log is run on: each stage is given all its inputs while the
\* other stages are given the core ones.
Lines ==
    {Line(t, w1, n, w2, pl, tl) :
        t \in TsAll, w1 \in WsCore, n \in NetCore, w2 \in WsCore,
        pl \in PayCore, tl \in TailCore}
    \cup
    {Line(t, w1, n, w2, pl, tl) :
        t \in TsCore, w1 \in WsAll, n \in NetAll, w2 \in WsAll,
        pl \in PayCore, tl \in TailCore}
    \cup
    {Line(t, w1, n, w2, pl, tl) :
        t \in TsCore, w1 \in WsCore, n \in NetCore, w2 \in WsCore,
        pl \in PayAll, tl \in TailAll}

--------------------------------------------------------------------------
(* parse_log as a state machine                                            *)

VARIABLES
    input,          \* the text parse_log is called on
    pc,             \* the stage of the tuple parser that runs next
    pos,            \* where the next stage starts (the remaining input)
    ts,             \* the timestamp parsed: date, time, micro and unix_time
    network_info,   \* the NetworkInfo parsed
    json_str,       \* the payload text parsed
    res,            \* what parse_log returned
    trace           \* the stages that matched, each with the text it consumed

vars == <<input, pc, pos, ts, network_info, json_str, res, trace>>

\* NextStage with the whitespace after the network tuple left out.
NextStageSkipsSpace(stage) ==
    CASE stage = "timestamp" -> "space1_a"
      [] stage = "space1_a" -> "network"
      [] stage = "network" -> "payload"
      [] stage = "space1_b" -> "payload"
      [] stage = "payload" -> "newlines"
      [] stage = "newlines" -> "assemble"
      [] stage = "assemble" -> "done"

\* The order of the tuple in parse_log.
NextStage(stage) ==
    CASE stage = "timestamp" -> "space1_a"
      [] stage = "space1_a" -> "network"
      [] stage = "network" -> "space1_b"
      [] stage = "space1_b" -> "payload"
      [] stage = "payload" -> "newlines"
      [] stage = "newlines" -> "assemble"
      [] stage = "assemble" -> "done"

NoTimestamp == [date |-> <<>>, time |-> <<>>, micro |-> <<>>, unix_time |-> I64Millis(0, 0)]

Pending == [kind |-> "pending", rest |-> <<>>, msg |-> NoMessage]

\* Err(nom::Err::Error(..)) out of the tuple parser: the ? in parse_log.
Failure == [kind |-> "failure", rest |-> <<>>, msg |-> NoMessage]

\* The unwrap in parse_ip_port_pair panicked: the process aborts.
Panic == [kind |-> "panic", rest |-> <<>>, msg |-> NoMessage]

Init ==
    /\ input \in Lines
    /\ pc = "timestamp"
    /\ pos = 1
    /\ ts = NoTimestamp
    /\ network_info = NoNetworkInfo
    /\ json_str = <<>>
    /\ res = Pending
    /\ trace = <<>>

Matched(to) ==
    /\ trace' = Append(trace, [stage |-> pc, from |-> pos, to |-> to])
    /\ pos' = to
    /\ pc' = NextStage(pc)
    /\ res' = res

Stopped(r) ==
    /\ res' = r
    /\ pc' = "done"
    /\ UNCHANGED <<pos, trace>>

StageTimestamp ==
    /\ pc = "timestamp"
    /\ LET r == parse_server_time(input, pos)
       IN  IF r.ok
           THEN /\ Matched(r.to)
                /\ ts' = [date |-> r.date, time |-> r.time, micro |-> r.micro,
                          unix_time |-> r.unix_time]
           ELSE /\ Stopped(Failure)
                /\ ts' = ts
    /\ UNCHANGED <<input, network_info, json_str>>

StageSpace1 ==
    /\ pc \in {"space1_a", "space1_b"}
    /\ LET r == space1(input, pos)
       IN  IF r.ok THEN Matched(r.to) ELSE Stopped(Failure)
    /\ UNCHANGED <<input, ts, network_info, json_str>>

StageNetwork ==
    /\ pc = "network"
    /\ LET r == parse_network_info(input, pos)
       IN  IF r.st = "ok"
           THEN /\ Matched(r.to)
                /\ network_info' = r.info
           ELSE /\ Stopped(IF r.st = "panic" THEN Panic ELSE Failure)
                /\ network_info' = network_info
    /\ UNCHANGED <<input, ts, json_str>>

StagePayload ==
    /\ pc = "payload"
    /\ LET r == parse_payload(input, pos)
       IN  IF r.ok
           THEN /\ Matched(r.to)
                /\ json_str' = r.json
           ELSE /\ Stopped(Failure)
                /\ json_str' = json_str
    /\ UNCHANGED <<input, ts, network_info>>

StageNewlines ==
    /\ pc = "newlines"
    /\ Matched(many0_newline(input, pos))
    /\ UNCHANGED <<input, ts, network_info, json_str>>

\* The body of parse_log after the tuple parser matched.
StageAssemble ==
    /\ pc = "assemble"
    /\ LET a == Assemble(ts.unix_time, network_info, json_str)
       IN  res' = [kind |-> a.kind, rest |-> Suffix(input, pos), msg |-> a.msg]
    /\ pc' = NextStage(pc)
    /\ UNCHANGED <<input, pos, ts, network_info, json_str, trace>>

Next ==
    \/ StageTimestamp
    \/ StageSpace1
    \/ StageNetwork
    \/ StagePayload
    \/ StageNewlines
    \/ StageAssemble

Spec == Init /\ [][Next]_vars

--------------------------------------------------------------------------
(* parse_log as a function of its input                                    *)

\* parse_log: the tuple of the six stages, then the envelope.
parse_log(s) ==
    LET t  == parse_server_time(s, 1)
        a  == space1(s, t.to)
        n  == parse_network_info(s, a.to)
        b  == space1(s, n.to)
        pl == parse_payload(s, b.to)
        e  == many0_newline(s, pl.to)
        r  == Assemble(t.unix_time, n.info, pl.json)
    IN  IF ~t.ok \/ ~a.ok THEN Failure
        ELSE IF n.st = "panic" THEN Panic
        ELSE IF n.st = "error" \/ ~b.ok \/ ~pl.ok THEN Failure
        ELSE [kind |-> r.kind, rest |-> Suffix(s, e), msg |-> r.msg]

--------------------------------------------------------------------------
(* Properties                                                              *)

\* All six stages of the tuple matched: the line matches the whole grammar.
GrammarMatched == Len(trace) = 6

\* The trace entry of a stage that matched.
PayloadSpan == trace[5]
NewlineSpan == trace[6]

\* The hex digits, of either case.
HexDigitChars ==
    DigitChars \cup {"a", "b", "c", "d", "e", "f", "A", "B", "C", "D", "E", "F"}

IsHexText(text) ==
    Len(text) % 2 = 0 /\ \A i \in 1..Len(text) : text[i] \in HexDigitChars

\* The input with the payload text replaced by another text.
WithBody(body) ==
    SubSeq(input, 1, PayloadSpan.from + 1) \o body \o Suffix(input, PayloadSpan.to)

\* C1: a port whose digit run is above 2^32-1 ends the parse in a parse error
\* returned to the caller; the process never aborts (no panic is reachable).
C1_PortOverflowNeverPanics == res.kind # "panic"

\* C2: when the grammar matched, the client port is not 0 and the payload text
\* has odd length or a character that is no hex digit, parse_log returns
\* Ok with None, and the remaining input is what follows the payload and the
\* newlines after it: the same as for a hex payload in the same place.
C2_BadHexIsNoEnvelope ==
    (pc = "done" /\ GrammarMatched /\ network_info.client_port # U32Zero
        /\ ~IsHexText(json_str))
    => /\ res.kind = "none"
       /\ res.rest = Suffix(input, NewlineSpan.to)
       /\ \A i \in PayloadSpan.to..(NewlineSpan.to - 1) : input[i] = "\n"
       /\ res.rest = <<>> \/ res.rest[1] # "\n"
       /\ Len(json_str) % 2 = 0 =>
            \A c \in {"0", "f"} :
                LET good == parse_log(WithBody(Repeat(c, Len(json_str))))
                IN  good.kind = "envelope" /\ good.rest = res.rest

\* C2 happens: a payload of even length with a character that is no hex digit,
\* followed by a newline and more input, gave no envelope.
C2_Witness ==
    /\ pc = "done" /\ res.kind = "none"
    /\ Len(json_str) > 0 /\ Len(json_str) % 2 = 0
    /\ NewlineSpan.to > NewlineSpan.from
    /\ res.rest # <<>>

\* The digit run of the client port in the input: the digits after the first
\* colon of the network tuple.
ClientPortText ==
    LET from == FindChar(input, trace[3].from, ":") + 1
    IN  SubSeq(input, from, RunEnd(input, from, DigitChars) - 1)

\* C3: a NetworkInfo that was parsed has its protocol set, "mqtt" exactly when
\* the client port is 0 (its digit run is all zeros) and "iec104" otherwise.
C3_ProtocolFromClientPort ==
    Len(trace) >= 3 =>
        /\ network_info.protocol \in {"mqtt", "iec104"}
        /\ network_info.protocol = "mqtt" <=> network_info.client_port = U32(0)
        /\ network_info.protocol = "mqtt"
             <=> \A i \in 1..Len(ClientPortText) : ClientPortText[i] = "0"

\* C3 happens: a tuple with client port 0 and another server port is mqtt.
C3_Witness ==
    /\ Len(trace) >= 3
    /\ network_info.client_port = U32(0)
    /\ network_info.server_port = U32(1883)
    /\ network_info.protocol = "mqtt"

\* C4: in every envelope message_type and channel.protocol are present and
\* equal, and the channel's addresses and ports are those of the NetworkInfo.
C4_MessageTypeIsProtocol ==
    res.kind = "envelope" =>
        /\ res.msg.message_type # "None"
        /\ res.msg.channel.protocol # "None"
        /\ res.msg.message_type = res.msg.channel.protocol
        /\ res.msg.channel.client_ip = network_info.client_ip
        /\ res.msg.channel.client_port = network_info.client_port
        /\ res.msg.channel.server_ip = network_info.server_ip
        /\ res.msg.channel.server_port = network_info.server_port

\* C4 happens: an iec104 envelope carries the ports of its tuple.
C4_Witness ==
    /\ res.kind = "envelope"
    /\ res.msg.message_type = "iec104"
    /\ res.msg.channel.client_port = U32(65536)
    /\ res.msg.channel.server_port = U32(1883)

\* C5: when the grammar matched and the client port is 0, parse_log produces
\* an envelope whose message is the bytes of the input text between the
\* two-character prefix and the line break, as they are, and whose
\* message_type is "mqtt".
C5_MqttPayloadVerbatim ==
    (pc = "done" /\ GrammarMatched /\ network_info.client_port = U32(0))
    => /\ res.kind = "envelope"
       /\ res.msg.message_type = "mqtt"
       /\ Len(res.msg.message) = PayloadSpan.to - PayloadSpan.from - 2
       /\ \A i \in 1..Len(res.msg.message) :
            /\ res.msg.message[i] = AsciiCode[input[PayloadSpan.from + 1 + i]]
            /\ input[PayloadSpan.from + 1 + i] \notin {"\n", "\r"}
       /\ PayloadSpan.to <= Len(input) => input[PayloadSpan.to] \in {"\n", "\r"}
       /\ json_str = BodyJson => res.msg.message = <<123, 34, 97, 34, 58, 49, 125>>

\* C5 happens: an mqtt line whose payload is no hex text gave an envelope.
C5_Witness ==
    /\ pc = "done" /\ GrammarMatched /\ network_info.client_port = U32(0)
    /\ json_str = <<"g", "E">>
    /\ res.msg.message = <<103, 69>>

\* The value of a hex digit: its place among the digits, in either case.
HexDigitValue(c) ==
    LET lower == <<"0", "1", "2", "3", "4", "5", "6", "7", "8", "9",
                   "a", "b", "c", "d", "e", "f">>
        upper == <<"0", "1", "2", "3", "4", "5", "6", "7", "8", "9",
                   "A", "B", "C", "D", "E", "F">>
    IN  (CHOOSE i \in 1..16 : lower[i] = c \/ upper[i] = c) - 1

\* C6: when the grammar matched, the client port is not 0 and the payload is
\* 2n hex digits, parse_log produces an envelope whose message has n bytes,
\* byte i being 16 * value(digit 2i-1) + value(digit 2i), and whose
\* message_type is "iec104".
C6_HexPayloadDecoded ==
    (pc = "done" /\ GrammarMatched /\ network_info.client_port # U32(0)
        /\ IsHexText(json_str))
    => /\ res.kind = "envelope"
       /\ res.msg.message_type = "iec104"
       /\ Len(res.msg.message) * 2 = Len(json_str)
       /\ \A i \in 1..Len(res.msg.message) :
            res.msg.message[i] =
                16 * HexDigitValue(json_str[2 * i - 1]) + HexDigitValue(json_str[2 * i])
       /\ json_str = BodyHexTest => res.msg.message = <<104, 34, 238>>

\* C6 happens: hex digits of both cases were decoded to a byte.
C6_Witness ==
    /\ pc = "done" /\ GrammarMatched /\ network_info.client_port # U32(0)
    /\ json_str = <<"E", "e">>
    /\ res.kind = "envelope"
    /\ res.msg.message = <<238>>

\* The text parse_server_time hands to str_as_unix_time.
TimestampText == FormatDatetime(ts.date, ts.time, ts.micro)

StartsWith(token) == SubSeq(input, 1, Len(token)) = token

\* C7: parse_server_time accepts only three date groups and three time
\* groups; fewer or more of either are a grammar mismatch.
C7_ExactlyThreeGroups ==
    Len(trace) >= 1 => Len(ts.date) = 3 /\ Len(ts.time) = 3

\* C8: for a token that names a date and time that exist, parse_server_time
\* returns the epoch milliseconds of that date-time at offset zero minus
\* 28,800,000 ms (1714838421525 for "2024-05-05 00:00:21.525"), and consumes
\* the whole token.
C8_TimestampMinus8h ==
    Len(trace) >= 1 =>
        LET utc == parse_with_timezone(TimestampText)
            to  == trace[1].to
            ws  == Cardinality({i \in 1..(to - 1) : input[i] \in SpaceChars})
        IN  /\ utc.ok => /\ ts.unix_time = AddMillis(utc.v, -28800000)
                         /\ AddMillis(ts.unix_time, 28800000) = utc.v
            /\ StartsWith(TsTest) => ts.unix_time = I64Millis(1714838421, 525)
            /\ StartsWith(TsLeapDay) => ts.unix_time = I64Millis(1709222399, 999)
            /\ StartsWith(TsEpochPlus8h) => ts.unix_time = I64Millis(0, 0)
            /\ trace[1].from = 1
            /\ to - 1 = Len(TimestampText) - 1 + ws
            /\ to <= Len(input) => input[to] \notin DigitChars

\* C8 happens: the token of test_server_time was parsed to 1714838421525.
C8_Witness ==
    /\ Len(trace) >= 1
    /\ StartsWith(TsTest)
    /\ parse_with_timezone(TimestampText).ok
    /\ ts.unix_time = I64Millis(1714838421, 525)

\* C9: when the token matched but names no date-time, the timestamp is 0 (no
\* -8 h applied), and parse_log goes on as for a token that does: the same
\* outcome and remaining input, with server_time present and 0 in an envelope.
C9_FailedConversionIsZero ==
    (Len(trace) >= 1 /\ ~parse_with_timezone(TimestampText).ok) =>
        /\ ts.unix_time = I64Millis(0, 0)
        /\ pc = "done" =>
            LET good == parse_log(TsTest \o Suffix(input, trace[1].to))
            IN  /\ res.kind = good.kind
                /\ res.rest = good.rest
                /\ res.kind = "envelope" =>
                    /\ res.msg.server_time = I64Millis(0, 0)
                    /\ res.msg = [good.msg EXCEPT !.server_time = I64Millis(0, 0)]

\* C9 happens: a line with month 13 gave an envelope with server_time 0.
C9_Witness ==
    /\ pc = "done"
    /\ StartsWith(TsMonth13)
    /\ res.kind = "envelope"
    /\ res.msg.server_time = I64Millis(0, 0)

\* The stages of the tuple in parse_log, in order.
StageOrder ==
    <<"timestamp", "space1_a", "network", "space1_b", "payload", "newlines">>

\* Whether a stage matches at a position of the input.
StageMatch(stage, p) ==
    CASE stage = "timestamp" -> IF parse_server_time(input, p).ok THEN "ok" ELSE "error"
      [] stage \in {"space1_a", "space1_b"} -> IF space1(input, p).ok THEN "ok" ELSE "error"
      [] stage = "network" -> parse_network_info(input, p).st
      [] stage = "payload" -> IF parse_payload(input, p).ok THEN "ok" ELSE "error"
      [] stage = "newlines" -> "ok"

\* C10: the stages run in the order timestamp, whitespace, network tuple,
\* whitespace, payload, newlines, each where the one before stopped; a stage
\* that does not match makes the result a parse failure, and an envelope or
\* "no envelope" comes only after all of them matched in that order.
C10_StagesInOrder ==
    /\ Len(trace) <= Len(StageOrder)
    /\ \A i \in 1..Len(trace) :
        /\ trace[i].stage = StageOrder[i]
        /\ trace[i].from = (IF i = 1 THEN 1 ELSE trace[i - 1].to)
        /\ StageMatch(trace[i].stage, trace[i].from) = "ok"
    /\ pos = (IF trace = <<>> THEN 1 ELSE trace[Len(trace)].to)
    /\ res.kind \in {"envelope", "none"} => Len(trace) = Len(StageOrder)
    /\ res.kind = "failure" =>
        /\ Len(trace) < Len(StageOrder)
        /\ StageMatch(StageOrder[Len(trace) + 1], pos) = "error"
    /\ (pc = "done" /\ Len(trace) < Len(StageOrder)
            /\ StageMatch(StageOrder[Len(trace) + 1], pos) = "error")
        => res.kind = "failure"
    /\ pc \notin {"done", "assemble"} => pc = StageOrder[Len(trace) + 1]

\* C10 happens: the payload stage did not match after the four stages before
\* it did, and the result is a parse failure.
C10_Witness ==
    /\ pc = "done"
    /\ Len(trace) = 4
    /\ res.kind = "failure"

\* The payload stage was reached: the four stages before it matched.
PayloadReached == Len(trace) >= 4

\* Where the payload stage starts, and the two characters the input has there.
PayloadStart == trace[4].to

PrefixText == SubSeq(input, PayloadStart, PayloadStart + 1)

\* The input with the two characters at the payload position replaced.
WithPrefix(prefix) ==
    SubSeq(input, 1, PayloadStart - 1) \o prefix \o Suffix(input, PayloadStart + 2)

\* C11: "D:" and "R:" are interchangeable: a line with one prefix replaced by
\* the other has the same outcome of parse_log (envelope, "no envelope" or
\* failure) and the same remaining input; any other two characters at the
\* payload position are a parse failure; and the payload text extracted has
\* no line-break character.
C11_PrefixesInterchangeable ==
    /\ (pc = "done" /\ PayloadReached /\ PrefixText \in {<<"D", ":">>, <<"R", ":">>})
        => /\ res = parse_log(WithPrefix(<<"D", ":">>))
           /\ res = parse_log(WithPrefix(<<"R", ":">>))
    /\ (pc = "done" /\ PayloadReached /\ PrefixText \notin {<<"D", ":">>, <<"R", ":">>})
        => res.kind = "failure" /\ Len(trace) = 4
    /\ \A i \in 1..Len(json_str) : json_str[i] \notin {"\n", "\r"}
    /\ Len(trace) >= 5 =>
        /\ json_str = SubSeq(input, PayloadStart + 2, PayloadSpan.to - 1)
        /\ PrefixText \in {<<"D", ":">>, <<"R", ":">>}

\* C11 happens: a line with the "R:" prefix, a payload and a line break after
\* it gave an envelope.
C11_Witness ==
    /\ pc = "done"
    /\ PayloadReached
    /\ PrefixText = <<"R", ":">>
    /\ res.kind = "envelope"
    /\ Len(json_str) > 0
    /\ PayloadSpan.to <= Len(input)
    /\ input[PayloadSpan.to] \in {"\n", "\r"}

====
